---- MODULE Spec2Model ----
(***************************************************************************)
(* The medbot repository: the query server (main.py), the PDF extractor    *)
(* (prepare_data.py) and the ingestion pipeline (ingest_data.py).          *)
(*                                                                         *)
(* Python strings are TLA+ strings where they are only built and compared  *)
(* (server-sent events, messages), and sequences of fragments where the    *)
(* program iterates over them or tests what they contain.                  *)
(***************************************************************************)
EXTENDS Integers, Sequences, FiniteSets, TLC

(***************************************************************************)
(* Bounds of the model.                                                    *)
(***************************************************************************)
\* number of HTTP requests the server receives
MaxReq == 2
\* number of leading characters of the disclaimer the model types out
MsgLen == 3
\* most increments one language-model stream produces
MaxChunks == 2
\* most directory entries the PDF source directory holds
MaxFiles == 2
\* most pages the reader yields from one PDF
MaxPages == 2
\* number of ingestion runs
MaxIngest == 2

None == "None"
Req == 1..MaxReq

\* texts the external services can hand back
Tokens == {"a", "b"}
Errs == {"boom"}
Langs == {"en", "zz"}
SupportedLangs == {"en"}
Translations == {"hola"}

(***************************************************************************)
(* State                                                                   *)
(***************************************************************************)
\* main.py
VARIABLES
    dirExists,        \* os.path.exists(CHROMA_PERSIST_DIR) when the server starts
    vocabulary,       \* the texts an increment of the language model can carry
    phase,            \* "starting", "serving", or "failed" (startup raised)
    vector_store,     \* the three globals of main.py
    llm,
    prompt_template,
    kind,             \* per request: "none" (not sent yet), "health", "options", "chat", "translate"
    pc,               \* per request: where its handler / generator is
    lang,             \* per translate request: target_lang
    events,           \* per chat request: the strings its generator has yielded
    produced,         \* per chat request: the increments the model stream has produced
    idx,              \* per chat request: characters of the disclaimer typed so far
    searchCalls,      \* per chat request: calls of asimilarity_search
    llmCalls,         \* per chat request: calls of llm.astream
    retrieved,        \* per chat request: what asimilarity_search returned
    fault,            \* per chat request: the exception raised inside the try block
    response,         \* per request: the JSON / Response object returned
    hung,             \* per translate request: its translation call never returns
    pendingAtArrival  \* per request: a translation call was pending when it arrived

globals == <<vector_store, llm, prompt_template>>

requestVars == <<kind, pc, lang, events, produced, idx, searchCalls, llmCalls,
                 retrieved, fault, response, hung, pendingAtArrival>>

serverVars == <<dirExists, vocabulary, phase, globals, requestVars>>

\* prepare_data.py
VARIABLES
    srcDir,       \* what PDF_SOURCE_DIR is: "missing", "file" or "dir"
    listing,      \* os.listdir(pdf_dir): the names in the directory, in its order
    outFile,      \* OUTPUT_TEXT_FILE: whether it exists, and its content
    outBefore,    \* OUTPUT_TEXT_FILE as it was before the run
    xpc,          \* where the run is
    pdf_files,    \* the names that passed the extension test
    fileNo,       \* index in pdf_files of the file being read
    pageNo,       \* pages of that file read so far
    all_text,     \* the text extracted so far
    readOk,       \* names reported "Successfully extracted text from"
    readFailed    \* names reported "Could not read"

extractVars == <<srcDir, listing, outFile, outBefore, xpc, pdf_files, fileNo, pageNo,
                 all_text, readOk, readFailed>>

\* ingest_data.py
VARIABLES
    kbFile,       \* KNOWLEDGE_BASE_FILE: the text file, or NoKb when absent
    collection,   \* the documents of the persisted collection, in insertion order
    nextId,       \* number of ids the store has handed out
    cacheDir,     \* os.path.exists(MODEL_CACHE_DIR)
    ipc,          \* where the run is
    documents,    \* what the loader returned
    texts,        \* the chunks the splitter returned
    lastChunks,   \* the chunks of the most recent run that stored any
    reported,     \* the document count the most recent run printed
    ingestRuns    \* number of runs started

ingestVars == <<kbFile, collection, nextId, cacheDir, ipc, documents, texts, lastChunks,
                reported, ingestRuns>>

vars == <<serverVars, extractVars, ingestVars>>

(***************************************************************************)
(* main.py: the query server                                               *)
(***************************************************************************)
\* f"data: {x}\n\n"
Sse(x) == "data: " \o x \o "\n\n"

NotInitMessage == "Vector store is not initialized. Please check server startup logs."

\* no_context_message, character by character
NoContextChars ==
    << "I", " ", "d", "o", " ", "n", "o", "t", " ", "h", "a", "v", "e", " ", "e", "n",
       "o", "u", "g", "h", " ", "i", "n", "f", "o", "r", "m", "a", "t", "i", "o", "n",
       " ", "a", "b", "o", "u", "t", " ", "t", "h", "a", "t", " ", "t", "o", "p", "i",
       "c", " ", "t", "o", " ", "p", "r", "o", "v", "i", "d", "e", " ", "a", "n", " ",
       "a", "n", "s", "w", "e", "r", ".", " ", "D", "i", "s", "c", "l", "a", "i", "m",
       "e", "r", ":", " ", "I", " ", "a", "m", " ", "a", "n", " ", "A", "l", " ", "a",
       "s", "s", "i", "s", "t", "a", "n", "t", " ", "a", "n", "d", " ", "n", "o", "t",
       " ", "a", " ", "s", "u", "b", "s", "t", "i", "t", "u", "t", "e", " ", "f", "o",
       "r", " ", "p", "r", "o", "f", "e", "s", "s", "i", "o", "n", "a", "l", " ", "m",
       "e", "d", "i", "c", "a", "l", " ", "a", "d", "v", "i", "c", "e", ".", " ", "P",
       "l", "e", "a", "s", "e", " ", "c", "o", "n", "s", "u", "l", "t", " ", "a", " ",
       "q", "u", "a", "l", "i", "f", "i", "e", "d", " ", "h", "e", "a", "l", "t", "h",
       "c", "a", "r", "e", " ", "p", "r", "o", "v", "i", "d", "e", "r", " ", "f", "o",
       "r", " ", "a", "n", "y", " ", "h", "e", "a", "l", "t", "h", " ", "c", "o", "n",
       "c", "e", "r", "n", "s", "." >>

\* the part of it the model types out
NoContextMessage == SubSeq(NoContextChars, 1, MsgLen)

\* f"An error occurred: {e}"
ErrorText(e) == "An error occurred: " \o e

NoResponse == [pending |-> TRUE]

\* asimilarity_search(query, k=5)
TopK == 5

Kinds == {"health", "options", "chat", "translate"}

RequestInit ==
    /\ kind = [r \in Req |-> "none"]
    /\ pc = [r \in Req |-> "idle"]
    /\ lang = [r \in Req |-> None]
    /\ events = [r \in Req |-> << >>]
    /\ produced = [r \in Req |-> << >>]
    /\ idx = [r \in Req |-> 0]
    /\ searchCalls = [r \in Req |-> 0]
    /\ llmCalls = [r \in Req |-> 0]
    /\ retrieved = [r \in Req |-> None]
    /\ fault = [r \in Req |-> None]
    /\ response = [r \in Req |-> NoResponse]
    /\ hung = [r \in Req |-> FALSE]
    /\ pendingAtArrival = [r \in Req |-> FALSE]

\* the module scope of main.py before the startup hook has run
ServerInit ==
    /\ dirExists \in BOOLEAN
    /\ vocabulary = Tokens
    /\ phase = "starting"
    /\ vector_store = None
    /\ llm = None
    /\ prompt_template = None
    /\ RequestInit

\* the same server with a language model of one text
ServerInitOneText ==
    /\ dirExists \in BOOLEAN
    /\ vocabulary = {"a"}
    /\ phase = "starting"
    /\ vector_store = None
    /\ llm = None
    /\ prompt_template = None
    /\ RequestInit

\* startup_event without the early return: Chroma creates the missing directory
startup_event_no_return ==
    /\ phase = "starting"
    /\ phase' = "serving"
    /\ vector_store' = "Chroma"
    /\ prompt_template' = "PromptTemplate"
    /\ llm' = "ChatOllama"
    /\ UNCHANGED <<extractVars, ingestVars, dirExists, vocabulary, requestVars>>

\* startup_event: the directory is missing, or every component is constructed
startup_event ==
    /\ phase = "starting"
    /\ phase' = "serving"
    /\ IF ~dirExists
         THEN UNCHANGED globals
         ELSE /\ vector_store' = "Chroma"
              /\ prompt_template' = "PromptTemplate"
              /\ llm' = "ChatOllama"
    /\ UNCHANGED <<extractVars, ingestVars, dirExists, vocabulary, requestVars>>

\* startup_event raises in a constructor: the globals assigned before it stay
\* assigned, and the framework does not start serving
startup_raises ==
    /\ phase = "starting"
    /\ dirExists
    /\ phase' = "failed"
    /\ \E at \in {"SentenceTransformerEmbeddings", "Chroma", "ChatOllama"} :
         IF at = "ChatOllama"
           THEN /\ vector_store' = "Chroma"
                /\ prompt_template' = "PromptTemplate"
                /\ UNCHANGED llm
           ELSE UNCHANGED globals
    /\ UNCHANGED <<extractVars, ingestVars, dirExists, vocabulary, requestVars>>

\* the translate call made directly in the coroutine
TranslateInline(r) == "event_loop"

\* where the blocking translate call of request r runs: asyncio.to_thread
TranslateDispatch(r) == "worker_thread"

\* a synchronous call of another request occupies the thread of the event loop
LoopBlocked(r) ==
    \E t \in Req \ {r} : pc[t] = "translating" /\ TranslateDispatch(t) = "event_loop"

\* a client sends request r (requests are numbered in the order they are sent)
Arrive(r) ==
    /\ phase = "serving"
    /\ kind[r] = "none"
    /\ \A q \in Req : q < r => kind[q] # "none"
    /\ \E k \in Kinds :
         /\ kind' = [kind EXCEPT ![r] = k]
         /\ IF k = "translate"
              THEN \E l \in Langs : lang' = [lang EXCEPT ![r] = l]
              ELSE UNCHANGED lang
    /\ pc' = [pc EXCEPT ![r] = "start"]
    /\ pendingAtArrival' =
         [pendingAtArrival EXCEPT ![r] = \E t \in Req : pc[t] = "translating"]
    /\ UNCHANGED <<extractVars, ingestVars, dirExists, vocabulary, phase, globals,
                   events, produced, idx, searchCalls, llmCalls, retrieved, fault,
                   response, hung>>

\* read_root
read_root(r) ==
    /\ kind[r] = "health" /\ pc[r] = "start"
    /\ ~LoopBlocked(r)
    /\ response' = [response EXCEPT ![r] =
         [status |-> "ok", message |-> "Al Medical Chatbot API is running."]]
    /\ pc' = [pc EXCEPT ![r] = "done"]
    /\ UNCHANGED <<extractVars, ingestVars, dirExists, vocabulary, phase, globals, kind,
                   lang, events, produced, idx, searchCalls, llmCalls, retrieved, fault,
                   hung, pendingAtArrival>>

\* chat_options, translate_options
options(r) ==
    /\ kind[r] = "options" /\ pc[r] = "start"
    /\ ~LoopBlocked(r)
    /\ response' = [response EXCEPT ![r] = [status_code |-> 200]]
    /\ pc' = [pc EXCEPT ![r] = "done"]
    /\ UNCHANGED <<extractVars, ingestVars, dirExists, vocabulary, phase, globals, kind,
                   lang, events, produced, idx, searchCalls, llmCalls, retrieved, fault,
                   hung, pendingAtArrival>>

\* chat: the handler returns the streaming response over the generator
chat(r) ==
    /\ kind[r] = "chat" /\ pc[r] = "start"
    /\ ~LoopBlocked(r)
    /\ response' = [response EXCEPT ![r] = [media_type |-> "text/event-stream"]]
    /\ pc' = [pc EXCEPT ![r] = "generator"]
    /\ UNCHANGED <<extractVars, ingestVars, dirExists, vocabulary, phase, globals, kind,
                   lang, events, produced, idx, searchCalls, llmCalls, retrieved, fault,
                   hung, pendingAtArrival>>

\* `not vector_store`: Python's truth value of the global. None is false; a
\* Chroma handle has a __len__ (the collection's count), so it is false when
\* the collection reports no documents.
Falsy(store, empty) == store = None \/ empty

\* yield f"data: {text}\n\n"
Emit(r, text) == events' = [events EXCEPT ![r] = Append(@, Sse(text))]

\* stream_chat_response up to its first suspension: the not-initialized event,
\* or the call of asimilarity_search
stream_begin(r) ==
    /\ kind[r] = "chat" /\ pc[r] = "generator"
    /\ ~LoopBlocked(r)
    /\ \E empty \in BOOLEAN :
         IF Falsy(vector_store, empty)
           THEN /\ Emit(r, NotInitMessage)
                /\ pc' = [pc EXCEPT ![r] = "last_event"]
                /\ UNCHANGED searchCalls
           ELSE /\ searchCalls' = [searchCalls EXCEPT ![r] = @ + 1]
                /\ pc' = [pc EXCEPT ![r] = "searching"]
                /\ UNCHANGED events
    /\ UNCHANGED <<extractVars, ingestVars, dirExists, vocabulary, phase, globals, kind,
                   lang, produced, idx, llmCalls, retrieved, fault, response, hung,
                   pendingAtArrival>>

\* the generator is resumed after its last yield and ends (the return, or the
\* end of the except block)
stream_end(r) ==
    /\ kind[r] = "chat" /\ pc[r] = "last_event"
    /\ ~LoopBlocked(r)
    /\ pc' = [pc EXCEPT ![r] = "done"]
    /\ UNCHANGED <<extractVars, ingestVars, dirExists, vocabulary, phase, globals, kind,
                   lang, events, produced, idx, searchCalls, llmCalls, retrieved, fault,
                   response, hung, pendingAtArrival>>

\* a generator without the except block: the exception leaves the generator
stream_no_except(r, e) ==
    /\ pc' = [pc EXCEPT ![r] = "crashed"]
    /\ UNCHANGED events

\* except Exception as e: one event with the error text
stream_except(r, e) ==
    /\ Emit(r, ErrorText(e))
    /\ pc' = [pc EXCEPT ![r] = "last_event"]

\* an exception e is raised inside the try block of request r
Raise(r, e) ==
    /\ fault' = [fault EXCEPT ![r] = e]
    /\ stream_except(r, e)

\* asimilarity_search returns n documents: none starts the disclaimer loop;
\* otherwise the context is joined, the prompt formatted (which may raise) and
\* llm.astream called
search_returns(r) ==
    /\ kind[r] = "chat" /\ pc[r] = "searching"
    /\ ~LoopBlocked(r)
    /\ \E n \in 0..TopK :
         IF n = 0
           THEN /\ retrieved' = [retrieved EXCEPT ![r] = "no_docs"]
                /\ pc' = [pc EXCEPT ![r] = "typing"]
                /\ UNCHANGED <<events, llmCalls, fault>>
           ELSE /\ retrieved' = [retrieved EXCEPT ![r] = "docs"]
                /\ \/ /\ llmCalls' = [llmCalls EXCEPT ![r] = @ + 1]
                      /\ pc' = [pc EXCEPT ![r] = "streaming"]
                      /\ UNCHANGED <<events, fault>>
                   \/ /\ \E e \in Errs : Raise(r, e)
                      /\ UNCHANGED llmCalls
    /\ UNCHANGED <<extractVars, ingestVars, dirExists, vocabulary, phase, globals, kind,
                   lang, produced, idx, searchCalls, response, hung, pendingAtArrival>>

\* asimilarity_search raises, and the handler resets the store
search_raises_resets(r) ==
    /\ kind[r] = "chat" /\ pc[r] = "searching"
    /\ ~LoopBlocked(r)
    /\ \E e \in Errs : Raise(r, e)
    /\ vector_store' = None
    /\ UNCHANGED <<extractVars, ingestVars, dirExists, vocabulary, phase, llm,
                   prompt_template, kind, lang, produced, idx, searchCalls, llmCalls,
                   retrieved, response, hung, pendingAtArrival>>

\* asimilarity_search raises
search_raises(r) ==
    /\ kind[r] = "chat" /\ pc[r] = "searching"
    /\ ~LoopBlocked(r)
    /\ \E e \in Errs : Raise(r, e)
    /\ UNCHANGED <<extractVars, ingestVars, dirExists, vocabulary, phase, globals, kind,
                   lang, produced, idx, searchCalls, llmCalls, retrieved, response,
                   hung, pendingAtArrival>>

\* the disclaimer loop stopping one character before the end of the message
type_char_short(r) ==
    /\ kind[r] = "chat" /\ pc[r] = "typing"
    /\ ~LoopBlocked(r)
    /\ IF idx[r] < Len(NoContextMessage) - 1
         THEN /\ Emit(r, NoContextMessage[idx[r] + 1])
              /\ idx' = [idx EXCEPT ![r] = @ + 1]
              /\ UNCHANGED pc
         ELSE /\ pc' = [pc EXCEPT ![r] = "done"]
              /\ UNCHANGED <<events, idx>>
    /\ UNCHANGED <<extractVars, ingestVars, dirExists, vocabulary, phase, globals, kind,
                   lang, produced, searchCalls, llmCalls, retrieved, fault, response,
                   hung, pendingAtArrival>>

\* for char in no_context_message: yield the character, then asyncio.sleep;
\* return after the last one
type_char(r) ==
    /\ kind[r] = "chat" /\ pc[r] = "typing"
    /\ ~LoopBlocked(r)
    /\ IF idx[r] < Len(NoContextMessage)
         THEN /\ Emit(r, NoContextMessage[idx[r] + 1])
              /\ idx' = [idx EXCEPT ![r] = @ + 1]
              /\ UNCHANGED pc
         ELSE /\ pc' = [pc EXCEPT ![r] = "done"]
              /\ UNCHANGED <<events, idx>>
    /\ UNCHANGED <<extractVars, ingestVars, dirExists, vocabulary, phase, globals, kind,
                   lang, produced, searchCalls, llmCalls, retrieved, fault, response,
                   hung, pendingAtArrival>>

\* the streaming loop yielding an increment only when it differs from the one
\* before it
llm_chunk_dedup(r) ==
    /\ kind[r] = "chat" /\ pc[r] = "streaming"
    /\ ~LoopBlocked(r)
    /\ Len(produced[r]) < MaxChunks
    /\ \E tok \in vocabulary :
         /\ produced' = [produced EXCEPT ![r] = Append(@, tok)]
         /\ IF produced[r] # << >> /\ produced[r][Len(produced[r])] = tok
              THEN UNCHANGED events
              ELSE Emit(r, tok)
    /\ UNCHANGED <<extractVars, ingestVars, dirExists, vocabulary, phase, globals, kind,
                   pc, lang, idx, searchCalls, llmCalls, retrieved, fault, response,
                   hung, pendingAtArrival>>

\* async for chunk in llm_stream: the model produces an increment and the
\* generator yields it
llm_chunk(r) ==
    /\ kind[r] = "chat" /\ pc[r] = "streaming"
    /\ ~LoopBlocked(r)
    /\ Len(produced[r]) < MaxChunks
    /\ \E tok \in vocabulary :
         /\ produced' = [produced EXCEPT ![r] = Append(@, tok)]
         /\ Emit(r, tok)
    /\ UNCHANGED <<extractVars, ingestVars, dirExists, vocabulary, phase, globals, kind,
                   pc, lang, idx, searchCalls, llmCalls, retrieved, fault, response,
                   hung, pendingAtArrival>>

\* the model signals completion: the loop and the generator end
llm_end(r) ==
    /\ kind[r] = "chat" /\ pc[r] = "streaming"
    /\ ~LoopBlocked(r)
    /\ pc' = [pc EXCEPT ![r] = "done"]
    /\ UNCHANGED <<extractVars, ingestVars, dirExists, vocabulary, phase, globals, kind,
                   lang, events, produced, idx, searchCalls, llmCalls, retrieved, fault,
                   response, hung, pendingAtArrival>>

\* the model stream raises, before or after some increments
llm_raises(r) ==
    /\ kind[r] = "chat" /\ pc[r] = "streaming"
    /\ ~LoopBlocked(r)
    /\ \E e \in Errs : Raise(r, e)
    /\ UNCHANGED <<extractVars, ingestVars, dirExists, vocabulary, phase, globals, kind,
                   lang, produced, idx, searchCalls, llmCalls, retrieved, response,
                   hung, pendingAtArrival>>

\* translate_text with the translator constructed before the try block
translate_text_ctor_outside(r) ==
    /\ kind[r] = "translate" /\ pc[r] = "start"
    /\ ~LoopBlocked(r)
    /\ IF lang[r] \in SupportedLangs
         THEN /\ pc' = [pc EXCEPT ![r] = "translating"]
              /\ UNCHANGED response
         ELSE /\ response' = [response EXCEPT ![r] = [status_code |-> 500]]
              /\ pc' = [pc EXCEPT ![r] = "crashed"]
    /\ UNCHANGED <<extractVars, ingestVars, dirExists, vocabulary, phase, globals, kind,
                   lang, events, produced, idx, searchCalls, llmCalls, retrieved, fault,
                   hung, pendingAtArrival>>

\* translate_text up to its await: GoogleTranslator(...) raises on a language it
\* does not support (caught: the error payload), else the call is handed to
\* asyncio.to_thread
translate_text(r) ==
    /\ kind[r] = "translate" /\ pc[r] = "start"
    /\ ~LoopBlocked(r)
    /\ IF lang[r] \in SupportedLangs
         THEN /\ pc' = [pc EXCEPT ![r] = "translating"]
              /\ UNCHANGED response
         ELSE /\ \E e \in Errs : response' = [response EXCEPT ![r] = [error |-> e]]
              /\ pc' = [pc EXCEPT ![r] = "done"]
    /\ UNCHANGED <<extractVars, ingestVars, dirExists, vocabulary, phase, globals, kind,
                   lang, events, produced, idx, searchCalls, llmCalls, retrieved, fault,
                   hung, pendingAtArrival>>

\* the translation call returns: return {"translated_text": result}
translate_returns(r) ==
    /\ kind[r] = "translate" /\ pc[r] = "translating" /\ ~hung[r]
    /\ ~LoopBlocked(r)
    /\ \E x \in Translations :
         response' = [response EXCEPT ![r] = [translated_text |-> x]]
    /\ pc' = [pc EXCEPT ![r] = "done"]
    /\ UNCHANGED <<extractVars, ingestVars, dirExists, vocabulary, phase, globals, kind,
                   lang, events, produced, idx, searchCalls, llmCalls, retrieved, fault,
                   hung, pendingAtArrival>>

\* the translation call raises: except Exception as e, return {"error": str(e)}
translate_raises(r) ==
    /\ kind[r] = "translate" /\ pc[r] = "translating" /\ ~hung[r]
    /\ ~LoopBlocked(r)
    /\ \E e \in Errs : response' = [response EXCEPT ![r] = [error |-> e]]
    /\ pc' = [pc EXCEPT ![r] = "done"]
    /\ UNCHANGED <<extractVars, ingestVars, dirExists, vocabulary, phase, globals, kind,
                   lang, events, produced, idx, searchCalls, llmCalls, retrieved, fault,
                   hung, pendingAtArrival>>

\* the translation service never answers (no timeout is set on the call)
translate_hangs(r) ==
    /\ kind[r] = "translate" /\ pc[r] = "translating" /\ ~hung[r]
    /\ hung' = [hung EXCEPT ![r] = TRUE]
    /\ UNCHANGED <<extractVars, ingestVars, dirExists, vocabulary, phase, globals, kind,
                   pc, lang, events, produced, idx, searchCalls, llmCalls, retrieved,
                   fault, response, pendingAtArrival>>

\* every step of request r but the outcome of its translation call
Handle(r) ==
    \/ read_root(r)
    \/ options(r)
    \/ chat(r)
    \/ stream_begin(r)
    \/ stream_end(r)
    \/ search_returns(r)
    \/ search_raises(r)
    \/ type_char(r)
    \/ llm_chunk(r)
    \/ llm_end(r)
    \/ llm_raises(r)
    \/ translate_text(r)

\* the translation call of request r ends
TranslationEnds(r) == translate_returns(r) \/ translate_raises(r)

\* the server is not run
ServerOff ==
    /\ dirExists = FALSE
    /\ vocabulary = Tokens
    /\ phase = "starting"
    /\ vector_store = None
    /\ llm = None
    /\ prompt_template = None
    /\ RequestInit

ServerNext ==
    \/ startup_event
    \/ startup_raises
    \/ \E r \in Req : Arrive(r)
    \/ \E r \in Req : Handle(r)
    \/ \E r \in Req : TranslationEnds(r)
    \/ \E r \in Req : translate_hangs(r)

(***************************************************************************)
(* prepare_data.py: the PDF extractor                                      *)
(*                                                                         *)
(* File names are sequences of characters; the extracted text is the       *)
(* sequence of the fragments appended to it.                               *)
(***************************************************************************)
\* the names a directory entry can have
FileNames ==
    { <<"a", ".", "p", "d", "f">>,
      <<"B", ".", "P", "D", "F">>,
      <<"c", ".", "P", "d", "f">>,
      <<"n", ".", "t", "x", "t">>,
      <<"p", "d", "f">> }

\* str.lower(), on the characters file names are made of
LowerChar(c) ==
    CASE c = "B" -> "b"
      [] c = "P" -> "p"
      [] c = "D" -> "d"
      [] c = "F" -> "f"
      [] OTHER -> c

Lower(s) == [i \in 1..Len(s) |-> LowerChar(s[i])]

\* str.endswith(suffix)
EndsWith(s, suffix) ==
    /\ Len(s) >= Len(suffix)
    /\ SubSeq(s, Len(s) - Len(suffix) + 1, Len(s)) = suffix

DotPdf == <<".", "p", "d", "f">>

\* f.lower().endswith(".pdf")
IsPdf(f) == EndsWith(Lower(f), DotPdf)

\* [f for f in os.listdir(pdf_dir) if ...]
RECURSIVE Filter(_)
Filter(names) ==
    IF names = << >>
      THEN << >>
      ELSE IF IsPdf(Head(names))
             THEN << Head(names) >> \o Filter(Tail(names))
             ELSE Filter(Tail(names))

\* a file name as one string
RECURSIVE Join(_)
Join(s) == IF s = << >> THEN "" ELSE Head(s) \o Join(Tail(s))

PageDigits == <<"1", "2", "3", "4">>

\* what page.extract_text() returns for page p of file f, when it has text
PageText(f, p) == Join(f) \o "#" \o PageDigits[p]

\* the fragments of the text of file f
TextOf(f) == {PageText(f, p) : p \in DOMAIN PageDigits}

Range(s) == {s[i] : i \in DOMAIN s}

\* sequences without repetition over S, of length at most n
RECURSIVE Listings(_, _)
Listings(S, n) ==
    IF n = 0
      THEN {<< >>}
      ELSE {<< >>} \cup
           UNION {{<<x>> \o rest : rest \in Listings(S \ {x}, n - 1)} : x \in S}

\* OUTPUT_TEXT_FILE does not exist
NoFile == [exists |-> FALSE, text |-> << >>]

\* with open(OUTPUT_TEXT_FILE, "w") as f: f.write(text)
Written(text) == [exists |-> TRUE, text |-> text]

\* the file system before a run: the source directory, and an output file that
\* an earlier run may have left
ExtractInit ==
    /\ srcDir \in {"missing", "file", "dir"}
    /\ listing \in IF srcDir = "dir" THEN Listings(FileNames, MaxFiles) ELSE {<< >>}
    /\ outFile \in {NoFile, Written(<<"old text", "\n\n">>)}
    /\ outBefore = outFile
    /\ xpc = "start"
    /\ pdf_files = << >>
    /\ fileNo = 0
    /\ pageNo = 0
    /\ all_text = << >>
    /\ readOk = {}
    /\ readFailed = {}

\* extract_text_from_pdfs up to its loop: a missing directory or one without
\* PDFs returns ""; os.listdir raises on a path that is no directory
extract_begin ==
    /\ xpc = "start"
    /\ IF srcDir = "missing"
         THEN /\ xpc' = "returned"
              /\ UNCHANGED <<pdf_files, fileNo>>
         ELSE IF srcDir = "file"
           THEN /\ xpc' = "crashed"
                /\ UNCHANGED <<pdf_files, fileNo>>
           ELSE /\ pdf_files' = Filter(listing)
                /\ IF Filter(listing) = << >>
                     THEN xpc' = "returned" /\ UNCHANGED fileNo
                     ELSE xpc' = "open" /\ fileNo' = 1
    /\ UNCHANGED <<serverVars, ingestVars, srcDir, listing, outFile, outBefore, pageNo,
                   all_text, readOk, readFailed>>

\* the end of one iteration of `for filename in pdf_files`
NextFile ==
    /\ fileNo' = fileNo + 1
    /\ pageNo' = 0
    /\ xpc' = IF fileNo < Len(pdf_files) THEN "open" ELSE "returned"

\* reader = PdfReader(path)
open_pdf ==
    /\ xpc = "open"
    /\ xpc' = "pages"
    /\ UNCHANGED <<serverVars, ingestVars, srcDir, listing, outFile, outBefore,
                   pdf_files, fileNo, pageNo, all_text, readOk, readFailed>>

\* except Exception as e: the file is reported and the loop goes on
except_pdf ==
    /\ readFailed' = readFailed \cup {pdf_files[fileNo]}
    /\ NextFile

\* PdfReader(path) raises
open_raises ==
    /\ xpc = "open"
    /\ except_pdf
    /\ UNCHANGED <<serverVars, ingestVars, srcDir, listing, outFile, outBefore,
                   pdf_files, all_text, readOk>>

\* one iteration of `for page in reader.pages`: the page has text, which is
\* appended with a blank line, or it has none (None or "")
read_page ==
    /\ xpc = "pages"
    /\ pageNo < MaxPages
    /\ pageNo' = pageNo + 1
    /\ \E hasText \in BOOLEAN :
         all_text' = IF hasText
                       THEN all_text \o << PageText(pdf_files[fileNo], pageNo + 1), "\n\n" >>
                       ELSE all_text
    /\ UNCHANGED <<serverVars, ingestVars, srcDir, listing, outFile, outBefore, xpc,
                   pdf_files, fileNo, readOk, readFailed>>

\* reader.pages or page.extract_text() raises
page_raises ==
    /\ xpc = "pages"
    /\ except_pdf
    /\ UNCHANGED <<serverVars, ingestVars, srcDir, listing, outFile, outBefore,
                   pdf_files, all_text, readOk>>

\* the pages are exhausted: the file is reported as extracted
pages_end ==
    /\ xpc = "pages"
    /\ readOk' = readOk \cup {pdf_files[fileNo]}
    /\ NextFile
    /\ UNCHANGED <<serverVars, ingestVars, srcDir, listing, outFile, outBefore,
                   pdf_files, all_text, readFailed>>

\* main without the test of extracted_text
main_always_writes ==
    /\ xpc = "returned"
    /\ outFile' = Written(all_text)
    /\ xpc' = "finished"
    /\ UNCHANGED <<serverVars, ingestVars, srcDir, listing, outBefore, pdf_files,
                   fileNo, pageNo, all_text, readOk, readFailed>>

\* main after extract_text_from_pdfs returned: the text is written when there
\* is any
main ==
    /\ xpc = "returned"
    /\ outFile' = IF all_text # << >> THEN Written(all_text) ELSE outFile
    /\ xpc' = "finished"
    /\ UNCHANGED <<serverVars, ingestVars, srcDir, listing, outBefore, pdf_files,
                   fileNo, pageNo, all_text, readOk, readFailed>>

ExtractNext ==
    \/ extract_begin
    \/ open_pdf
    \/ open_raises
    \/ read_page
    \/ page_raises
    \/ pages_end
    \/ main

\* the extractor is not run
ExtractOff ==
    /\ srcDir = "missing"
    /\ listing = << >>
    /\ outFile = NoFile
    /\ outBefore = NoFile
    /\ xpc = "start"
    /\ pdf_files = << >>
    /\ fileNo = 0
    /\ pageNo = 0
    /\ all_text = << >>
    /\ readOk = {}
    /\ readFailed = {}

(***************************************************************************)
(* ingest_data.py: the ingestion pipeline                                  *)
(*                                                                         *)
(* The knowledge base is a text of a given length without separators, on   *)
(* which the splitter falls back to cutting windows of characters; a chunk *)
(* is the window [from, to) of its text.                                   *)
(***************************************************************************)
\* RecursiveCharacterTextSplitter(chunk_size=1000, chunk_overlap=200)
ChunkSize == 1000
ChunkOverlap == 200

\* the knowledge-base files a run can find
KbFiles == [name : {"kb1", "kb2"}, len : {700, 1000, 1001, 1801}]

\* KNOWLEDGE_BASE_FILE does not exist
NoKb == [name |-> "absent", len |-> 0]

Min(a, b) == IF a < b THEN a ELSE b

\* number of windows of ChunkSize characters, each starting ChunkOverlap
\* before the end of the one before it, that cover n characters
NumChunks(n) ==
    IF n <= ChunkSize
      THEN 1
      ELSE 1 + ((n - ChunkSize) + (ChunkSize - ChunkOverlap) - 1)
                 \div (ChunkSize - ChunkOverlap)

\* text_splitter.split_documents(documents)
Split(doc) ==
    [k \in 1..NumChunks(doc.len) |->
        [name |-> doc.name,
         from |-> (k - 1) * (ChunkSize - ChunkOverlap),
         to   |-> Min((k - 1) * (ChunkSize - ChunkOverlap) + ChunkSize, doc.len)]]

\* the documents stored in the collection, without their ids
Stored == [i \in 1..Len(collection) |-> collection[i].doc]

\* the file system before the first run: no vector store yet
IngestInit ==
    /\ kbFile \in KbFiles \cup {NoKb}
    /\ collection = << >>
    /\ nextId = 0
    /\ cacheDir \in BOOLEAN
    /\ ipc = "idle"
    /\ documents = << >>
    /\ texts = << >>
    /\ lastChunks = << >>
    /\ reported = 0
    /\ ingestRuns = 0

\* between two runs the knowledge base is rewritten (prepare_data.py) or removed
edit_kb ==
    /\ ipc = "idle"
    /\ ingestRuns < MaxIngest
    /\ kbFile' \in (KbFiles \cup {NoKb}) \ {kbFile}
    /\ UNCHANGED <<serverVars, extractVars, collection, nextId, cacheDir, ipc,
                   documents, texts, lastChunks, reported, ingestRuns>>

\* main up to the splitter: TextLoader(...).load() raises on a missing file
\* and the run returns, else it yields the file as one document
ingest_load ==
    /\ ipc = "idle"
    /\ ingestRuns < MaxIngest
    /\ ingestRuns' = ingestRuns + 1
    /\ IF kbFile = NoKb
         THEN UNCHANGED <<ipc, documents>>
         ELSE /\ documents' = << kbFile >>
              /\ ipc' = "split"
    /\ UNCHANGED <<serverVars, extractVars, kbFile, collection, nextId, cacheDir, texts,
                   lastChunks, reported>>

\* texts = text_splitter.split_documents(documents)
ingest_split ==
    /\ ipc = "split"
    /\ texts' = Split(documents[1])
    /\ ipc' = "embed"
    /\ UNCHANGED <<serverVars, extractVars, kbFile, collection, nextId, cacheDir,
                   documents, lastChunks, reported, ingestRuns>>

\* os.makedirs(MODEL_CACHE_DIR) when it is missing, and the embedding model
ingest_embed ==
    /\ ipc = "embed"
    /\ cacheDir' = TRUE
    /\ ipc' = "store"
    /\ UNCHANGED <<serverVars, extractVars, kbFile, collection, nextId, documents,
                   texts, lastChunks, reported, ingestRuns>>

\* Chroma.from_documents(documents=texts, persist_directory=..., collection_name=...):
\* the client opens the persisted collection, creating it when absent, and adds
\* the chunks under fresh ids
ingest_store ==
    /\ ipc = "store"
    /\ collection' = collection \o
         [i \in 1..Len(texts) |-> [id |-> nextId + i, doc |-> texts[i]]]
    /\ nextId' = nextId + Len(texts)
    /\ ipc' = "report"
    /\ UNCHANGED <<serverVars, extractVars, kbFile, cacheDir, documents, texts,
                   lastChunks, reported, ingestRuns>>

\* print(f"Vector store created with {db._collection.count()} documents.")
ingest_report ==
    /\ ipc = "report"
    /\ reported' = Len(collection)
    /\ lastChunks' = texts
    /\ ipc' = "idle"
    /\ UNCHANGED <<serverVars, extractVars, kbFile, collection, nextId, cacheDir,
                   documents, texts, ingestRuns>>

IngestNext ==
    \/ edit_kb
    \/ ingest_load
    \/ ingest_split
    \/ ingest_embed
    \/ ingest_store
    \/ ingest_report

\* the ingestion pipeline is not run
IngestOff ==
    /\ kbFile = NoKb
    /\ collection = << >>
    /\ nextId = 0
    /\ cacheDir = FALSE
    /\ ipc = "idle"
    /\ documents = << >>
    /\ texts = << >>
    /\ lastChunks = << >>
    /\ reported = 0
    /\ ingestRuns = 0

(***************************************************************************)
(* Specifications: the three programs, each run on its own                 *)
(***************************************************************************)
Init == ServerInit /\ ExtractOff /\ IngestOff

\* the query server
Spec == Init /\ [][ServerNext]_vars

FairInit == ServerInitOneText /\ ExtractOff /\ IngestOff

\* the query server under fair scheduling: the event loop runs every handler
\* that can take a step, and a translation call that does not hang ends
FairSpec ==
    /\ FairInit
    /\ [][ServerNext]_vars
    /\ \A r \in Req : WF_vars(Handle(r))
    /\ \A r \in Req : WF_vars(TranslationEnds(r))

ExtractSpecInit == ExtractInit /\ ServerOff /\ IngestOff

\* one run of the PDF extractor
ExtractSpec == ExtractSpecInit /\ [][ExtractNext]_vars

IngestSpecInit == IngestInit /\ ServerOff /\ ExtractOff

\* runs of the ingestion pipeline
IngestSpec == IngestSpecInit /\ [][IngestNext]_vars

(***************************************************************************)
(* Properties of the query server                                          *)
(***************************************************************************)
\* the events of a sequence of texts, one event per text
SseAll(seq) == [i \in 1..Len(seq) |-> Sse(seq[i])]

\* everything the server keeps about request r
ReqState(r) ==
    <<kind[r], pc[r], lang[r], events[r], produced[r], idx[r], searchCalls[r],
      llmCalls[r], retrieved[r], fault[r], response[r], hung[r]>>

\* C1: when the vector-store directory is missing at startup, vector_store
\* stays unset, and every chat request yields exactly the not-initialized
\* event and then ends, calling neither the similarity search nor the model.
C1_NotInitialized ==
    ~dirExists =>
        /\ vector_store = None
        /\ \A r \in Req : kind[r] = "chat" =>
             /\ searchCalls[r] = 0
             /\ llmCalls[r] = 0
             /\ pc[r] \in {"start", "generator", "last_event", "done"}
             /\ events[r] = IF pc[r] \in {"last_event", "done"}
                              THEN << Sse(NotInitMessage) >>
                              ELSE << >>

\* every request was a chat request against the unset store, and all have ended
C1_Witness ==
    /\ ~dirExists
    /\ phase = "serving"
    /\ \A r \in Req : kind[r] = "chat" /\ pc[r] = "done"

\* C2: an exception raised in the try block of a chat request (by the search,
\* the prompt formatting or the model stream, also after increments were
\* emitted) yields exactly one event with the error text, as the last event,
\* and the generator then ends.
C2_ErrorEvent ==
    \A r \in Req : fault[r] # None =>
        /\ pc[r] \in {"last_event", "done"}
        /\ events[r] = SseAll(produced[r]) \o << Sse(ErrorText(fault[r])) >>
        /\ Cardinality({i \in DOMAIN events[r] :
                          events[r][i] = Sse(ErrorText(fault[r]))}) = 1
        /\ pc[r] = "last_event" => ENABLED stream_end(r)

\* the model stream raised after an increment, and the stream has ended
C2_Witness ==
    \E r \in Req : fault[r] # None /\ pc[r] = "done" /\ Len(produced[r]) >= 1

\* C3: when the search returned documents and nothing raised, the events are
\* the model's increments, one event each, in the order produced, and the
\* stream ends when the model stream does.
C3_Verbatim ==
    \A r \in Req : (retrieved[r] = "docs" /\ fault[r] = None) =>
        /\ pc[r] \in {"streaming", "done"}
        /\ llmCalls[r] = 1
        /\ events[r] = SseAll(produced[r])

\* a finished stream of at least two different increments
C3_Witness ==
    \E r \in Req :
        /\ retrieved[r] = "docs" /\ fault[r] = None /\ pc[r] = "done"
        /\ Len(produced[r]) >= 2
        /\ produced[r][1] # produced[r][2]

\* C4: when the search returned no documents, the stream is one event per
\* character of the disclaimer, in order, and nothing else; the model is
\* never called.
C4_Disclaimer ==
    \A r \in Req : retrieved[r] = "no_docs" =>
        /\ pc[r] \in {"typing", "done"}
        /\ llmCalls[r] = 0
        /\ fault[r] = None
        /\ events[r] = SseAll(SubSeq(NoContextMessage, 1, idx[r]))
        /\ pc[r] = "done" =>
             /\ Len(events[r]) = Len(NoContextMessage)
             /\ events[r] = SseAll(NoContextMessage)

\* a disclaimer stream that has ended
C4_Witness ==
    \E r \in Req : retrieved[r] = "no_docs" /\ pc[r] = "done" /\ Len(events[r]) > 1

\* C5: a translate request ends with a payload of exactly one field,
\* translated_text or error (error when the language is not supported), and
\* the exception never leaves the handler.
C5_TranslatePayload ==
    \A r \in Req : kind[r] = "translate" =>
        /\ pc[r] \in {"start", "translating", "done"}
        /\ pc[r] # "done" => DOMAIN response[r] = {"pending"}
        /\ pc[r] = "done" =>
             /\ DOMAIN response[r] \in {{"translated_text"}, {"error"}}
             /\ lang[r] \notin SupportedLangs => DOMAIN response[r] = {"error"}

\* one translation succeeded and one failed on its language code
C5_Witness ==
    \E r, q \in Req :
        /\ kind[r] = "translate" /\ pc[r] = "done"
        /\ DOMAIN response[r] = {"translated_text"}
        /\ kind[q] = "translate" /\ pc[q] = "done"
        /\ lang[q] \notin SupportedLangs
        /\ DOMAIN response[q] = {"error"}

\* C6: a request that arrives while a translation call is pending (also one
\* that never returns) still runs to completion, unless its own translation
\* call hangs.
C6_NotBlocked ==
    \A r \in Req : [](pendingAtArrival[r] => <>(pc[r] = "done" \/ hung[r]))

\* a chat request that arrived during a translation call that then hung has
\* ended
C6_Witness ==
    \E t, r \in Req :
        /\ hung[t]
        /\ kind[r] = "chat" /\ pendingAtArrival[r] /\ pc[r] = "done"
        /\ events[r] # << >>

\* C10: once startup_event has completed, no step of any request changes the
\* three globals, and a step changes what the server keeps of one request only.
C10_Frame ==
    [][phase = "serving" =>
         /\ globals' = globals
         /\ phase' = phase
         /\ \A r \in Req : ReqState(r)' # ReqState(r) =>
              \A q \in Req \ {r} : ReqState(q)' = ReqState(q)]_vars

\* all requests have ended on an initialized server, one of them after a
\* failed search or stream
C10_Witness ==
    /\ phase = "serving"
    /\ vector_store = "Chroma" /\ llm = "ChatOllama" /\ prompt_template = "PromptTemplate"
    /\ \A r \in Req : kind[r] # "none" /\ pc[r] = "done"
    /\ \E r \in Req : fault[r] # None

(***************************************************************************)
(* Properties of the PDF extractor and of the ingestion pipeline           *)
(***************************************************************************)
\* C7: a PDF that fails during extraction is reported and skipped, so that
\* none of its text is in the extracted text, and every other PDF of the
\* directory is still processed.
C7_FailedPdfSkipped ==
    /\ \A f \in readFailed : TextOf(f) \cap Range(all_text) = {}
    /\ xpc \in {"returned", "finished"} => readOk \cup readFailed = Range(pdf_files)

\* C8: the persisted collection holds exactly the chunks of the most recent
\* run that stored any, and the count that run reports is its chunk count.
C8_RecreatedWholesale ==
    (ipc = "idle" /\ lastChunks # << >>) =>
        /\ Stored = lastChunks
        /\ reported = Len(lastChunks)

\* C9: when the source directory is missing, holds no file with a .pdf
\* extension in any letter case, or the extraction yields no text, the run
\* ends without raising and leaves the output file as it was before the run
\* (absent, or with the content an earlier run left).
C9_NoOutput ==
    /\ (srcDir = "missing" \/ (srcDir = "dir" /\ Filter(listing) = << >>)) =>
         /\ xpc \in {"start", "returned", "finished"}
         /\ all_text = << >>
         /\ outFile = outBefore
    /\ (xpc = "finished" /\ all_text = << >>) => outFile = outBefore
    /\ xpc # "finished" => outFile = outBefore

\* a run over a directory whose PDFs were read but had no text has ended, and
\* the output of an earlier run is still there
C9_Witness ==
    /\ xpc = "finished"
    /\ all_text = << >>
    /\ readOk # {}
    /\ outFile.exists

====
